---- MODULE Spec2Model ----
(***************************************************************************)
(* Image upload backend: the validation chain (imageValidationService),    *)
(* the in-memory session store (ImageUploadStore), the three service       *)
(* operations (imageUploadCreate / GetSession / ResetSession) and the      *)
(* controller wrappers that turn their outcome into an HTTP response.      *)
(*                                                                         *)
(* File names, whose characters the code inspects, are sequences of        *)
(* one-character strings; buffers are sequences of bytes.                  *)
(* A nullable field is a sequence of length <= 1: Null or Some(x).         *)
(***************************************************************************)
EXTENDS Integers, Sequences, FiniteSets, TLC

VARIABLES store, issued, clock, last, inflight, candidate, verdict, client

vars == <<store, issued, clock, last, inflight, candidate, verdict, client>>

(***************************************************************************)
(* Bounds of the model.                                                    *)
(***************************************************************************)
\* IMAGE_UPLOAD_LIMITS.MAX_SESSIONS is 100 in the source; the store's logic
\* reads it only through `size >= MAX_SESSIONS`, so the model runs it scaled
\* down to a capacity that the reachable states actually fill.
MAX_SESSIONS == 2
\* number of UUIDs uuidv4() can hand out
NumUuids == 2
\* last value of the millisecond clock
MaxTime == 2

(***************************************************************************)
(* Program constants.                                                      *)
(***************************************************************************)
MAX_FILE_SIZE == 15 * 1024 * 1024
MIN_FILE_SIZE == 1
HEADER_BYTES_TO_READ == 12
PNG_SIGNATURE == <<137, 80, 78, 71, 13, 10, 26, 10>>
JPEG_SIGNATURE == <<255, 216, 255>>
pngEndSignature == <<73, 69, 78, 68, 174, 66, 96, 130>>
jpegEndMarker == <<255, 217>>
EXT_PNG == <<".", "p", "n", "g">>
EXT_JPG == <<".", "j", "p", "g">>
EXT_JPEG == <<".", "j", "p", "e", "g">>

Null == <<>>
Some(x) == <<x>>

(***************************************************************************)
(* JavaScript string and buffer primitives used by the code.               *)
(***************************************************************************)
UpperChars == <<"A","B","C","D","E","F","G","H","I","J","K","L","M",
                "N","O","P","Q","R","S","T","U","V","W","X","Y","Z">>
LowerChars == <<"a","b","c","d","e","f","g","h","i","j","k","l","m",
                "n","o","p","q","r","s","t","u","v","w","x","y","z">>

\* String.prototype.toLowerCase, one character
toLowerChar(c) ==
  IF \E i \in 1..26 : UpperChars[i] = c
  THEN LowerChars[CHOOSE i \in 1..26 : UpperChars[i] = c]
  ELSE c

toLowerCase(s) == [i \in 1..Len(s) |-> toLowerChar(s[i])]

\* String.prototype.lastIndexOf('.'): 0-based index, -1 when there is none
lastIndexOfDot(s) ==
  IF \E i \in 1..Len(s) : s[i] = "."
  THEN (CHOOSE i \in 1..Len(s) : s[i] = "." /\ \A j \in (i+1)..Len(s) : s[j] /= ".") - 1
  ELSE -1

\* String.prototype.substring(start): a negative start counts as 0
substring(s, start) ==
  LET b == IF start < 0 THEN 0 ELSE start
  IN  [i \in 1..(Len(s) - b) |-> s[i + b]]

\* fileBuffer[i] with a 0-based index: undefined (here -1) outside the buffer
byteAt(buf, i) == IF i >= 0 /\ i < Len(buf) THEN buf[i + 1] ELSE -1

(***************************************************************************)
(* imageValidationService.  A stage that throws is a result with           *)
(* threw = TRUE and the ServiceError's code.                                *)
(***************************************************************************)
validateFileSize_Exclusive(fileSize) ==
  IF fileSize < MIN_FILE_SIZE
  THEN [threw |-> TRUE, code |-> "CORRUPTED_FILE"]
  ELSE IF fileSize >= MAX_FILE_SIZE
       THEN [threw |-> TRUE, code |-> "FILE_TOO_LARGE"]
       ELSE [threw |-> FALSE, code |-> "null"]

validateFileSize(fileSize) ==
  IF fileSize < MIN_FILE_SIZE
  THEN [threw |-> TRUE, code |-> "CORRUPTED_FILE"]
  ELSE IF fileSize > MAX_FILE_SIZE
       THEN [threw |-> TRUE, code |-> "FILE_TOO_LARGE"]
       ELSE [threw |-> FALSE, code |-> "null"]

validateFileExtension_CaseSensitive(fileName) ==
  LET extension == substring(fileName, lastIndexOfDot(fileName))
  IN  IF extension \notin {EXT_PNG, EXT_JPG, EXT_JPEG}
      THEN [threw |-> TRUE, code |-> "INVALID_EXTENSION", value |-> Null]
      ELSE [threw |-> FALSE, code |-> "null", value |-> Some(extension)]

validateFileExtension(fileName) ==
  LET extension == toLowerCase(substring(fileName, lastIndexOfDot(fileName)))
  IN  IF extension \notin {EXT_PNG, EXT_JPG, EXT_JPEG}
      THEN [threw |-> TRUE, code |-> "INVALID_EXTENSION", value |-> Null]
      ELSE [threw |-> FALSE, code |-> "null", value |-> Some(extension)]

detectFileFormat_NoLengthCheck(fileBuffer) ==
  IF \A i \in 1..Len(PNG_SIGNATURE) : byteAt(fileBuffer, i - 1) = PNG_SIGNATURE[i]
  THEN "png"
  ELSE IF \A i \in 1..Len(JPEG_SIGNATURE) : byteAt(fileBuffer, i - 1) = JPEG_SIGNATURE[i]
       THEN "jpeg"
       ELSE "null"

detectFileFormat_MagicOnly(fileBuffer) ==
  IF Len(fileBuffer) < HEADER_BYTES_TO_READ
  THEN "null"
  ELSE IF \A i \in 1..4 : byteAt(fileBuffer, i - 1) = PNG_SIGNATURE[i]
       THEN "png"
       ELSE IF \A i \in 1..2 : byteAt(fileBuffer, i - 1) = JPEG_SIGNATURE[i]
            THEN "jpeg"
            ELSE "null"

detectFileFormat(fileBuffer) ==
  IF Len(fileBuffer) < HEADER_BYTES_TO_READ
  THEN "null"
  ELSE IF \A i \in 1..Len(PNG_SIGNATURE) : byteAt(fileBuffer, i - 1) = PNG_SIGNATURE[i]
       THEN "png"
       ELSE IF \A i \in 1..Len(JPEG_SIGNATURE) : byteAt(fileBuffer, i - 1) = JPEG_SIGNATURE[i]
            THEN "jpeg"
            ELSE "null"

validateFileFormat_JpgOnly(extension, fileBuffer) ==
  LET detectedFormat == detectFileFormat(fileBuffer)
      extensionFormat == IF extension = EXT_JPG THEN "jpeg" ELSE "png"
  IN  IF detectedFormat = "null"
      THEN [threw |-> TRUE, code |-> "NOT_AN_IMAGE", value |-> "null"]
      ELSE IF detectedFormat /= extensionFormat
           THEN [threw |-> TRUE, code |-> "INVALID_FORMAT", value |-> "null"]
           ELSE [threw |-> FALSE, code |-> "null", value |-> detectedFormat]

validateFileFormat(extension, fileBuffer) ==
  LET detectedFormat == detectFileFormat(fileBuffer)
      extensionFormat == IF extension = EXT_PNG THEN "png" ELSE "jpeg"
  IN  IF detectedFormat = "null"
      THEN [threw |-> TRUE, code |-> "NOT_AN_IMAGE", value |-> "null"]
      ELSE IF detectedFormat /= extensionFormat
           THEN [threw |-> TRUE, code |-> "INVALID_FORMAT", value |-> "null"]
           ELSE [threw |-> FALSE, code |-> "null", value |-> detectedFormat]

validateFileIntegrity_ShortPasses(fileBuffer, format) ==
  LET endOf(sig) ==
        \A i \in 1..Len(sig) :
          LET b == byteAt(fileBuffer, Len(fileBuffer) - Len(sig) + i - 1)
          IN  b = -1 \/ b = sig[i]
  IN  IF format = "png" /\ ~endOf(pngEndSignature)
      THEN [threw |-> TRUE, code |-> "CORRUPTED_FILE"]
      ELSE IF format = "jpeg" /\ ~endOf(jpegEndMarker)
           THEN [threw |-> TRUE, code |-> "CORRUPTED_FILE"]
           ELSE [threw |-> FALSE, code |-> "null"]

validateFileIntegrity(fileBuffer, format) ==
  LET endOf(sig) ==
        \A i \in 1..Len(sig) : byteAt(fileBuffer, Len(fileBuffer) - Len(sig) + i - 1) = sig[i]
  IN  IF format = "png" /\ ~endOf(pngEndSignature)
      THEN [threw |-> TRUE, code |-> "CORRUPTED_FILE"]
      ELSE IF format = "jpeg" /\ ~endOf(jpegEndMarker)
           THEN [threw |-> TRUE, code |-> "CORRUPTED_FILE"]
           ELSE [threw |-> FALSE, code |-> "null"]

NoDetails ==
  [sizeValid |-> FALSE, extensionValid |-> FALSE, formatValid |-> FALSE,
   signatureValid |-> FALSE, integrityValid |-> FALSE,
   detectedFormat |-> "null", declaredExtension |-> Null]

validateImageFile_ExtensionFirst(input) ==
  LET size == validateFileSize(input.fileSize)
      d1   == [NoDetails EXCEPT !.sizeValid = TRUE]
      ext  == validateFileExtension(input.fileName)
      d2   == [d1 EXCEPT !.extensionValid = TRUE, !.declaredExtension = ext.value]
      fmt  == validateFileFormat(ext.value[1], input.fileBuffer)
      d3   == [d2 EXCEPT !.formatValid = TRUE, !.signatureValid = TRUE,
                         !.detectedFormat = fmt.value]
      int  == validateFileIntegrity(input.fileBuffer, fmt.value)
      d4   == [d3 EXCEPT !.integrityValid = TRUE]
      failed(code, d) == [isValid |-> FALSE, errorCode |-> code, details |-> d]
  IN  IF ext.threw THEN failed(ext.code, d1)
      ELSE IF size.threw THEN failed(size.code, NoDetails)
      ELSE IF fmt.threw THEN failed(fmt.code, d2)
      ELSE IF int.threw THEN failed(int.code, d3)
      ELSE [isValid |-> TRUE, errorCode |-> "null", details |-> d4]

validateImageFile_IgnoresIntegrity(input) ==
  LET size == validateFileSize(input.fileSize)
      d1   == [NoDetails EXCEPT !.sizeValid = TRUE]
      ext  == validateFileExtension(input.fileName)
      d2   == [d1 EXCEPT !.extensionValid = TRUE, !.declaredExtension = ext.value]
      fmt  == validateFileFormat(ext.value[1], input.fileBuffer)
      d3   == [d2 EXCEPT !.formatValid = TRUE, !.signatureValid = TRUE,
                         !.detectedFormat = fmt.value]
      int  == validateFileIntegrity(input.fileBuffer, fmt.value)
      d4   == [d3 EXCEPT !.integrityValid = TRUE]
      failed(code, d) == [isValid |-> FALSE, errorCode |-> code, details |-> d]
  IN  IF size.threw THEN failed(size.code, NoDetails)
      ELSE IF ext.threw THEN failed(ext.code, d1)
      ELSE IF fmt.threw THEN failed(fmt.code, d2)
      ELSE [isValid |-> TRUE, errorCode |-> "null", details |-> d4]

validateImageFile(input) ==
  LET size == validateFileSize(input.fileSize)
      d1   == [NoDetails EXCEPT !.sizeValid = TRUE]
      ext  == validateFileExtension(input.fileName)
      d2   == [d1 EXCEPT !.extensionValid = TRUE, !.declaredExtension = ext.value]
      fmt  == validateFileFormat(ext.value[1], input.fileBuffer)
      d3   == [d2 EXCEPT !.formatValid = TRUE, !.signatureValid = TRUE,
                         !.detectedFormat = fmt.value]
      int  == validateFileIntegrity(input.fileBuffer, fmt.value)
      d4   == [d3 EXCEPT !.integrityValid = TRUE]
      failed(code, d) == [isValid |-> FALSE, errorCode |-> code, details |-> d]
  IN  IF size.threw THEN failed(size.code, NoDetails)
      ELSE IF ext.threw THEN failed(ext.code, d1)
      ELSE IF fmt.threw THEN failed(fmt.code, d2)
      ELSE IF int.threw THEN failed(int.code, d3)
      ELSE [isValid |-> TRUE, errorCode |-> "null", details |-> d4]

(***************************************************************************)
(* Inputs: the files a request can carry.                                  *)
(***************************************************************************)
Rep(c, n) == [i \in 1..n |-> c]

PngBuffer == PNG_SIGNATURE \o <<0, 0, 0, 0>> \o pngEndSignature
JpegBuffer == JPEG_SIGNATURE \o <<224, 0, 16, 74, 70, 73, 70, 0, 1>> \o jpegEndMarker
ZeroBuffer == Rep(0, 20)
TruncatedPng == PNG_SIGNATURE \o <<0, 0, 0, 13, 73, 72, 68, 82>>

File(name, size, mime, buf) ==
  [fileName |-> name, fileSize |-> size, mimeType |-> mime, fileBuffer |-> buf]

PhotoPng == <<"p", ".", "p", "n", "g">>
PhotoJpg == <<"p", ".", "J", "P", "G">>
PhotoGif == <<"p", ".", "g", "i", "f">>

ValidFiles == { File(PhotoPng, 20, "image/png", PngBuffer) }

InvalidFiles ==
  { File(PhotoPng, 16000000, "image/png", PngBuffer),
    File(PhotoGif, 20, "image/gif", PngBuffer),
    File(PhotoPng, 20, "image/png", ZeroBuffer),
    File(PhotoJpg, 20, "image/jpeg", PngBuffer),
    File(PhotoPng, 16, "image/png", TruncatedPng) }

\* req.file: undefined when the request carried no file
Files == {Null} \cup {Some(f) : f \in ValidFiles \cup InvalidFiles}

\* a PNG image that passes validation, sent with another declared MIME type
MislabelledFiles ==
  { File(PhotoPng, 20, mime, PngBuffer) : mime \in {"text/plain", "image/gif"} }

\* validateImageFile(f) for every file of the model, computed once
validated ==
  [f \in ValidFiles \cup InvalidFiles \cup MislabelledFiles |-> validateImageFile(f)]

\* the client's validateMimeType: TRUE when it reports no error
ACCEPTED_MIME_TYPES == {"image/png", "image/jpeg"}
validateMimeType(type) == type \in ACCEPTED_MIME_TYPES

\* the server's list of MIME types, which no code of the server reads
IMAGE_UPLOAD_MIME_TYPES == {"image/png", "image/jpeg", "image/jpg"}

(***************************************************************************)
(* ImageUploadStore: the Map of sessions, passed and returned by value.    *)
(***************************************************************************)
getBySessionId(sessions, sessionId) ==
  IF sessionId \in DOMAIN sessions THEN Some(sessions[sessionId]) ELSE Null

\* mutant of mapSet: the Map is rebuilt from the new entry alone
mapSet_Clobber(sessions, sessionId, data) == [k \in {sessionId} |-> data]

\* Map.prototype.set
mapSet(sessions, sessionId, data) ==
  [k \in (DOMAIN sessions) \cup {sessionId} |-> IF k = sessionId THEN data ELSE sessions[k]]

\* Map.prototype.delete
mapDelete(sessions, sessionId) ==
  [k \in (DOMAIN sessions) \ {sessionId} |-> sessions[k]]

count(sessions) == Cardinality(DOMAIN sessions)

\* mutant of createOrUpdate: the capacity test is `>` instead of `>=`
createOrUpdate_OffByOne(sessions, sessionId, data) ==
  IF count(sessions) > MAX_SESSIONS /\ sessionId \notin DOMAIN sessions
  THEN [threw |-> TRUE, sessions |-> sessions]
  ELSE [threw |-> FALSE, sessions |-> mapSet(sessions, sessionId, data)]

\* mutant of createOrUpdate: the capacity test forgets `!this.sessions.has(sessionId)`
createOrUpdate_NoHasCheck(sessions, sessionId, data) ==
  IF count(sessions) >= MAX_SESSIONS
  THEN [threw |-> TRUE, sessions |-> sessions]
  ELSE [threw |-> FALSE, sessions |-> mapSet(sessions, sessionId, data)]

\* threw = TRUE stands for `throw new Error('Maximum sessions limit reached')`
createOrUpdate(sessions, sessionId, data) ==
  IF count(sessions) >= MAX_SESSIONS /\ sessionId \notin DOMAIN sessions
  THEN [threw |-> TRUE, sessions |-> sessions]
  ELSE [threw |-> FALSE, sessions |-> mapSet(sessions, sessionId, data)]

(***************************************************************************)
(* Errors a service call can end with.                                     *)
(***************************************************************************)
NoError == [cls |-> "none", code |-> "", statusCode |-> 0]
ServiceError(code, statusCode) ==
  [cls |-> "ServiceError", code |-> code, statusCode |-> statusCode]
\* the store's plain `Error`, which has neither code nor statusCode
PlainError == [cls |-> "Error", code |-> "", statusCode |-> 0]

(***************************************************************************)
(* sessionParamsSchema: z.string().uuid()                                  *)
(***************************************************************************)
\* The ids of the model are written out as string literals.  ServerUuids are
\* the values uuidv4() returns, in the order it returns them (a UUID it has
\* not returned yet is unknown to every client); ClientUuid is a well-formed
\* UUID made up by a client, which uuidv4() never returns.
ServerUuids ==
  <<"11111111-1111-4111-8111-111111111111",
    "22222222-2222-4222-8222-222222222222",
    "33333333-3333-4333-8333-333333333333",
    "44444444-4444-4444-8444-444444444444",
    "55555555-5555-4555-8555-555555555555",
    "66666666-6666-4666-8666-666666666666",
    "77777777-7777-4777-8777-777777777777",
    "88888888-8888-4888-8888-888888888888">>

ClientUuid == "cccccccc-cccc-4ccc-8ccc-cccccccccccc"

\* an id a client can send that is no UUID
MalformedId == "abc"

\* z.string().uuid(): the ids of the model that match zod's uuid pattern
sessionParamsSchema(sessionId) ==
  sessionId \in {ServerUuids[i] : i \in 1..Len(ServerUuids)} \cup {ClientUuid}

(***************************************************************************)
(* imageUploadService.  Each operation takes the store's sessions, the     *)
(* current time and the value uuidv4() would return, and yields the new    *)
(* sessions, the error thrown (NoError when it returns), the id in the     *)
(* returned data and whether uuidv4() was called.                          *)
(***************************************************************************)
Outcome(sessions, error, sessionId, usedUuid) ==
  [sessions |-> sessions, error |-> error, sessionId |-> sessionId, usedUuid |-> usedUuid]

\* mutant of headerPresent: the header is never taken as a session id
headerPresent_Never(header) == FALSE

\* JavaScript truthiness of the x-session-id header: undefined and '' are falsy
headerPresent(header) == header /= Null /\ header[1] /= ""

\* mutant of validationRejects: the result of the validation is not looked at
validationRejects_Never(validationResult) == FALSE

\* `if (!validationResult.isValid) throw ...`
validationRejects(validationResult) == ~validationResult.isValid

\* mutant of sessionLimitReached: the status of the existing session is not looked at
sessionLimitReached_Never(sessions, header) == FALSE

\* BR-001: the session named by the header already has a file
sessionLimitReached(sessions, header) ==
  /\ headerPresent(header)
  /\ getBySessionId(sessions, header[1]) /= Null
  /\ getBySessionId(sessions, header[1])[1].status = "concluida"

\* mutant of createdAtOf: createdAt is always the current time
createdAtOf_Now(sessions, header, now) == now

\* sessionId ? imageUploadStore.getBySessionId(sessionId)?.createdAt || now : now
createdAtOf(sessions, header, now) ==
  IF headerPresent(header) /\ getBySessionId(sessions, header[1]) /= Null
  THEN getBySessionId(sessions, header[1])[1].createdAt
  ELSE now

imageUploadCreate(sessions, now, uuid, req) ==
  IF req.file = Null
  THEN Outcome(sessions, ServiceError("VALIDATION_ERROR", 400), Null, FALSE)
  ELSE
    LET file == req.file[1]
        validationResult == validated[file]
        hasId == headerPresent(req.sessionIdHeader)
        newSessionId == IF hasId THEN req.sessionIdHeader[1] ELSE uuid
        record ==
          [sessionId |-> newSessionId,
           status    |-> "concluida",
           fileName  |-> Some(file.fileName),
           fileSize  |-> Some(file.fileSize),
           mimeType  |-> Some(file.mimeType),
           fileBuffer |-> Some(file.fileBuffer),
           createdAt |-> createdAtOf(sessions, req.sessionIdHeader, now),
           updatedAt |-> now]
        put == createOrUpdate(sessions, newSessionId, record)
    IN  IF validationRejects(validationResult)
        THEN Outcome(sessions, ServiceError(validationResult.errorCode, 400), Null, FALSE)
        ELSE IF sessionLimitReached(sessions, req.sessionIdHeader)
        THEN Outcome(sessions, ServiceError("SESSION_LIMIT_REACHED", 400), Null, FALSE)
        ELSE IF put.threw
        THEN Outcome(sessions, PlainError, Null, ~hasId)
        ELSE Outcome(put.sessions, NoError, Some(newSessionId), ~hasId)

imageUploadGetSession_Conflates(sessions, sessionId) ==
  IF ~sessionParamsSchema(sessionId) \/ getBySessionId(sessions, sessionId) = Null
  THEN Outcome(sessions, ServiceError("VALIDATION_ERROR", 400), Null, FALSE)
  ELSE Outcome(sessions, NoError, Some(sessions[sessionId].sessionId), FALSE)

imageUploadGetSession(sessions, sessionId) ==
  IF ~sessionParamsSchema(sessionId)
  THEN Outcome(sessions, ServiceError("VALIDATION_ERROR", 400), Null, FALSE)
  ELSE IF getBySessionId(sessions, sessionId) = Null
  THEN Outcome(sessions, ServiceError("NOT_FOUND", 404), Null, FALSE)
  ELSE Outcome(sessions, NoError, Some(sessions[sessionId].sessionId), FALSE)

imageUploadResetSession_KeepsFile(sessions, now, uuid, sessionId) ==
  IF ~sessionParamsSchema(sessionId)
  THEN Outcome(sessions, ServiceError("VALIDATION_ERROR", 400), Null, FALSE)
  ELSE IF getBySessionId(sessions, sessionId) = Null
  THEN Outcome(sessions, ServiceError("NOT_FOUND", 404), Null, FALSE)
  ELSE
    LET afterDelete == mapDelete(sessions, sessionId)
        record ==
          [sessions[sessionId] EXCEPT !.sessionId = uuid, !.status = "nova",
                                         !.createdAt = now, !.updatedAt = now]
        put == createOrUpdate(afterDelete, uuid, record)
    IN  IF put.threw
        THEN Outcome(afterDelete, PlainError, Null, TRUE)
        ELSE Outcome(put.sessions, NoError, Some(uuid), TRUE)

imageUploadResetSession_KeepsSessionId(sessions, now, uuid, sessionId) ==
  IF ~sessionParamsSchema(sessionId)
  THEN Outcome(sessions, ServiceError("VALIDATION_ERROR", 400), Null, FALSE)
  ELSE IF getBySessionId(sessions, sessionId) = Null
  THEN Outcome(sessions, ServiceError("NOT_FOUND", 404), Null, FALSE)
  ELSE
    LET afterDelete == mapDelete(sessions, sessionId)
        record ==
          [sessionId |-> sessionId, status |-> "nova",
           fileName |-> Null, fileSize |-> Null, mimeType |-> Null, fileBuffer |-> Null,
           createdAt |-> now, updatedAt |-> now]
        put == createOrUpdate(afterDelete, uuid, record)
    IN  IF put.threw
        THEN Outcome(afterDelete, PlainError, Null, TRUE)
        ELSE Outcome(put.sessions, NoError, Some(uuid), TRUE)

imageUploadResetSession_InsertFirst(sessions, now, uuid, sessionId) ==
  IF ~sessionParamsSchema(sessionId)
  THEN Outcome(sessions, ServiceError("VALIDATION_ERROR", 400), Null, FALSE)
  ELSE IF getBySessionId(sessions, sessionId) = Null
  THEN Outcome(sessions, ServiceError("NOT_FOUND", 404), Null, FALSE)
  ELSE
    LET record ==
          [sessionId |-> uuid, status |-> "nova",
           fileName |-> Null, fileSize |-> Null, mimeType |-> Null, fileBuffer |-> Null,
           createdAt |-> now, updatedAt |-> now]
        put == createOrUpdate(sessions, uuid, record)
    IN  IF put.threw
        THEN Outcome(sessions, PlainError, Null, TRUE)
        ELSE Outcome(mapDelete(put.sessions, sessionId), NoError, Some(uuid), TRUE)

imageUploadResetSession(sessions, now, uuid, sessionId) ==
  IF ~sessionParamsSchema(sessionId)
  THEN Outcome(sessions, ServiceError("VALIDATION_ERROR", 400), Null, FALSE)
  ELSE IF getBySessionId(sessions, sessionId) = Null
  THEN Outcome(sessions, ServiceError("NOT_FOUND", 404), Null, FALSE)
  ELSE
    LET afterDelete == mapDelete(sessions, sessionId)
        record ==
          [sessionId |-> uuid, status |-> "nova",
           fileName |-> Null, fileSize |-> Null, mimeType |-> Null, fileBuffer |-> Null,
           createdAt |-> now, updatedAt |-> now]
        put == createOrUpdate(afterDelete, uuid, record)
    IN  IF put.threw
        THEN Outcome(afterDelete, PlainError, Null, TRUE)
        ELSE Outcome(put.sessions, NoError, Some(uuid), TRUE)

(***************************************************************************)
(* Controller: the try/catch around each service call.  A ServiceError is  *)
(* answered with its statusCode and code; any other error goes to          *)
(* next(error) and the handler itself sends no response.                   *)
(***************************************************************************)
respond(op, successStatus, outcome) ==
  IF outcome.error.cls = "none"
  THEN [op |-> op, responded |-> TRUE, status |-> successStatus, code |-> "",
        sessionId |-> outcome.sessionId]
  ELSE IF outcome.error.cls = "ServiceError"
  THEN [op |-> op, responded |-> TRUE, status |-> outcome.error.statusCode,
        code |-> outcome.error.code, sessionId |-> Null]
  ELSE [op |-> op, responded |-> FALSE, status |-> 0, code |-> "", sessionId |-> Null]

(***************************************************************************)
(* State machine.  store is the singleton's Map; clock is Date.now();      *)
(* issued counts the UUIDs uuidv4() has handed out; last is the answer to  *)
(* the most recent request.  inflight (requests suspended at an await),    *)
(* candidate and verdict (a file under validation and the result) belong   *)
(* to the specifications further down and stay idle here, like client      *)
(* (the state of the page's upload hook).                                  *)
(***************************************************************************)
Idle == <<>>

NoRequest ==
  [op |-> "none", responded |-> TRUE, status |-> 0, code |-> "", sessionId |-> Null]

\* the value the next call of uuidv4() returns
uuidv4 == IF issued < Len(ServerUuids) THEN ServerUuids[issued + 1] ELSE ""

\* ids a client can know: those the server has issued, and its own
KnownIds == {ServerUuids[i] : i \in 1..issued} \cup {ClientUuid, MalformedId}

\* values of the x-session-id header: absent, empty, or an id
Headers == {Null, Some("")} \cup {Some(id) : id \in KnownIds}

Init ==
  /\ store = <<>>
  /\ issued = 0
  /\ clock = 1
  /\ last = NoRequest
  /\ inflight = Idle
  /\ candidate = Idle
  /\ verdict = Idle
  /\ client = Idle

\* the controller answers with the outcome o of the service call
Commit(op, successStatus, o) ==
  /\ (o.usedUuid /\ o.error = NoError) => issued < NumUuids
  /\ store' = o.sessions
  /\ issued' = IF o.usedUuid /\ o.error = NoError THEN issued + 1 ELSE issued
  /\ last' = respond(op, successStatus, o)
  /\ UNCHANGED <<clock, inflight, candidate, verdict, client>>

\* POST /image-upload
uploadHandler(file, header) ==
  Commit("create", 201,
         imageUploadCreate(store, clock, uuidv4, [file |-> file, sessionIdHeader |-> header]))

\* GET /image-upload/session/:sessionId
getSessionHandler(sessionId) ==
  Commit("get", 200, imageUploadGetSession(store, sessionId))

\* POST /image-upload/session/:sessionId/reset
resetSessionHandler(sessionId) ==
  Commit("reset", 200, imageUploadResetSession(store, clock, uuidv4, sessionId))

\* time passes between two requests
Tick ==
  /\ clock < MaxTime
  /\ clock' = clock + 1
  /\ UNCHANGED <<store, issued, last, inflight, candidate, verdict, client>>

Upload == \E file \in Files, header \in Headers : uploadHandler(file, header)
GetSession == \E sessionId \in KnownIds : getSessionHandler(sessionId)
ResetSession == \E sessionId \in KnownIds : resetSessionHandler(sessionId)

Next == Upload \/ GetSession \/ ResetSession \/ Tick

Spec == Init /\ [][Next]_vars

TypeOK ==
  /\ DOMAIN store \subseteq KnownIds
  /\ clock \in 1..MaxTime
  /\ issued \in 0..NumUuids

(***************************************************************************)
(* The validation chain on its own: candidate is a file handed to          *)
(* imageValidationService, verdict what one of its functions returned for  *)
(* it.                                                                     *)
(***************************************************************************)
FileNames ==
  { PhotoPng, PhotoJpg, PhotoGif,
    <<"p", ".", "P", "n", "G">>,
    <<"p", ".", "j", "p", "e", "g">>,
    <<"p", ".", "j", "p", "g">>,
    <<"a", ".", "b", ".", "p", "n", "g">>,
    <<"p", ".", "p", "n", "g", ".", "t", "x", "t">>,
    <<"p", "n", "g">>,
    <<".", "p", "n", "g">>,
    <<"p", ".">>,
    <<>> }

FileSizes == {0, 1, 20, 15728640, 15728641, 16000000}

Heads == { <<>>, PNG_SIGNATURE, JPEG_SIGNATURE,
           <<137, 80, 78, 71, 13, 10, 26, 11>>, <<255, 216, 0>> }
Paddings == {0, 4, 9}
Tails == { <<>>, pngEndSignature, jpegEndMarker,
           <<69, 78, 68, 174, 66, 96, 130>>, <<217>> }
Buffers == {h \o Rep(0, n) \o t : h \in Heads, n \in Paddings, t \in Tails}

Candidates ==
  {File(name, size, "image/png", buf) : name \in FileNames, size \in FileSizes, buf \in Buffers}

Extensions == {EXT_PNG, EXT_JPG, EXT_JPEG}
Formats == {"png", "jpeg"}

Returned(fn, arg, out) == [fn |-> fn, arg |-> arg, out |-> out]

ValidationInit ==
  /\ store = <<>>
  /\ issued = 0
  /\ clock = 1
  /\ last = NoRequest
  /\ inflight = Idle
  /\ candidate \in Candidates
  /\ verdict = Idle
  /\ client = Idle

Run(returned) ==
  /\ verdict = Idle
  /\ client = Idle
  /\ verdict' = returned
  /\ UNCHANGED <<store, issued, clock, last, inflight, candidate, client>>

RunFileSize ==
  Run(Returned("validateFileSize", Null, validateFileSize(candidate.fileSize)))
RunFileExtension ==
  Run(Returned("validateFileExtension", Null, validateFileExtension(candidate.fileName)))
RunDetect ==
  Run(Returned("detectFileFormat", Null, detectFileFormat(candidate.fileBuffer)))
RunFileFormat ==
  \E extension \in Extensions :
    Run(Returned("validateFileFormat", Some(extension),
                 validateFileFormat(extension, candidate.fileBuffer)))
RunFileIntegrity ==
  \E format \in Formats :
    Run(Returned("validateFileIntegrity", Some(format),
                 validateFileIntegrity(candidate.fileBuffer, format)))
RunImageFile ==
  Run(Returned("validateImageFile", Null, validateImageFile(candidate)))

ValidationNext ==
  \/ RunFileSize
  \/ RunFileExtension
  \/ RunDetect
  \/ RunFileFormat
  \/ RunFileIntegrity
  \/ RunImageFile

ValidationSpec == ValidationInit /\ [][ValidationNext]_vars

(***************************************************************************)
(* Concurrent uploads.  imageUploadCreate is an async function with one    *)
(* await, on validateImageFile (line 78): a request runs to that await,    *)
(* is suspended, and its continuation (lines 85-138: status check, uuid,   *)
(* createOrUpdate, return) then runs without another await, so without     *)
(* interruption.  inflight.requests are the requests of one batch in       *)
(* arrival order and inflight.start is the store the batch found.          *)
(***************************************************************************)
\* number of sequential requests served before the batch arrives
MaxPrefix == 2
\* number of requests of the batch
MaxRequests == 2

TheValidFile == CHOOSE f \in ValidFiles : TRUE
TheInvalidFile == CHOOSE f \in InvalidFiles : f.fileName = PhotoGif

\* the server after outcome o of a request served in state p
Served(p, o) ==
  [sessions |-> o.sessions,
   issued   |-> IF o.usedUuid /\ o.error = NoError THEN p.issued + 1 ELSE p.issued]

\* the states one more sequential request leads to from state p
ServeOne(p) ==
  {Served(p, imageUploadCreate(p.sessions, 1, ServerUuids[p.issued + 1],
                               [file |-> Some(TheValidFile), sessionIdHeader |-> header])) :
     header \in {Null, Some(ClientUuid)}}
  \cup
  {Served(p, imageUploadResetSession(p.sessions, 1, ServerUuids[p.issued + 1], id)) :
     id \in DOMAIN p.sessions}

RECURSIVE ServedWithin(_)
ServedWithin(n) ==
  IF n = 0
  THEN {[sessions |-> <<>>, issued |-> 0]}
  ELSE LET before == ServedWithin(n - 1)
       IN  before \cup UNION {ServeOne(p) : p \in before}

ConcurrentFiles == {Some(TheValidFile), Some(TheInvalidFile)}
ConcurrentHeaders == {Null} \cup {Some(id) : id \in KnownIds \ {MalformedId}}

ConcurrentInit ==
  /\ \E p \in ServedWithin(MaxPrefix) :
       /\ store = p.sessions
       /\ issued = p.issued
       /\ inflight = [start |-> p.sessions, requests |-> <<>>]
  /\ clock = 1
  /\ last = NoRequest
  /\ candidate = Idle
  /\ verdict = Idle
  /\ client = Idle

\* a request arrives and runs up to `await validateImageFile(...)`
Arrive(file, header) ==
  /\ Len(inflight.requests) < MaxRequests
  /\ inflight' = [inflight EXCEPT !.requests =
                    Append(@, [pc |-> "awaiting",
                               req |-> [file |-> file, sessionIdHeader |-> header],
                               response |-> NoRequest])]
  /\ UNCHANGED <<store, issued, clock, last, candidate, verdict, client>>

\* the continuation of request i runs to its end and the controller answers
Resume(i) ==
  /\ inflight.requests[i].pc = "awaiting"
  /\ LET o == imageUploadCreate(store, clock, uuidv4, inflight.requests[i].req)
     IN  /\ store' = o.sessions
         /\ issued' = IF o.usedUuid /\ o.error = NoError THEN issued + 1 ELSE issued
         /\ last' = respond("create", 201, o)
         /\ inflight' = [inflight EXCEPT !.requests[i].pc = "done",
                                         !.requests[i].response = respond("create", 201, o)]
  /\ UNCHANGED <<clock, candidate, verdict, client>>

ArriveAny == \E file \in ConcurrentFiles, header \in ConcurrentHeaders : Arrive(file, header)
ResumeAny == \E i \in 1..Len(inflight.requests) : Resume(i)

ConcurrentNext == ArriveAny \/ ResumeAny

ConcurrentSpec == ConcurrentInit /\ [][ConcurrentNext]_vars

(***************************************************************************)
(* The page's upload hook, useImageUpload, in front of the server.         *)
(* client holds the hook's React state (uploadStatus, sessionId), the      *)
(* mutation in flight, the file handed to it and the latest toast.  The    *)
(* page shows the upload zone when canUpload, and the reset button when    *)
(* uploadStatus is 'concluído' or 'erro'.  The client never sends the      *)
(* x-session-id header.                                                    *)
(***************************************************************************)
ClientFiles == ValidFiles \cup InvalidFiles

canUpload == client.uploadStatus = "aguardando" /\ client.pending /= "upload"
showResetButton == client.uploadStatus \in {"concluído", "erro"}

ClientInit ==
  /\ store = <<>>
  /\ issued = 0
  /\ clock = 1
  /\ last = NoRequest
  /\ inflight = Idle
  /\ candidate = Idle
  /\ verdict = Idle
  /\ client = [uploadStatus |-> "aguardando", sessionId |-> Null, pending |-> "none",
               file |-> Null, toast |-> "none"]

\* handleFileSelect -> uploadImage -> uploadMutation.mutationFn
SelectFile(file) ==
  /\ canUpload /\ client.pending = "none"
  /\ issued + 2 <= Len(ServerUuids)
  /\ client' = [client EXCEPT !.uploadStatus = "processando", !.pending = "upload",
                              !.file = Some(file)]
  /\ UNCHANGED <<store, issued, clock, last, inflight, candidate, verdict>>

\* the server answers POST /image-upload; uploadMutation.onSuccess / onError
UploadAnswered ==
  /\ client.pending = "upload"
  /\ LET o == imageUploadCreate(store, clock, uuidv4,
                                [file |-> client.file, sessionIdHeader |-> Null])
     IN  /\ store' = o.sessions
         /\ issued' = IF o.usedUuid /\ o.error = NoError THEN issued + 1 ELSE issued
         /\ last' = respond("create", 201, o)
         /\ client' = IF o.error = NoError
                      THEN [client EXCEPT !.uploadStatus = "concluído", !.sessionId = o.sessionId,
                                          !.pending = "none", !.toast = "Upload concluído"]
                      ELSE [client EXCEPT !.uploadStatus = "erro",
                                          !.pending = "none", !.toast = "Erro no upload"]
  /\ UNCHANGED <<clock, inflight, candidate, verdict>>

\* handleReset -> resetUpload -> resetMutation.mutationFn, which throws
\* without calling the server when the hook holds no sessionId
PressReset ==
  /\ showResetButton /\ client.pending = "none"
  /\ client' = IF client.sessionId = Null
               THEN [client EXCEPT !.toast = "Erro ao reiniciar"]
               ELSE [client EXCEPT !.pending = "reset"]
  /\ UNCHANGED <<store, issued, clock, last, inflight, candidate, verdict>>

\* the server answers POST /image-upload/session/:sessionId/reset;
\* resetMutation.onSuccess / onError
ResetAnswered ==
  /\ client.pending = "reset"
  /\ LET o == imageUploadResetSession(store, clock, uuidv4, client.sessionId[1])
     IN  /\ store' = o.sessions
         /\ issued' = IF o.usedUuid /\ o.error = NoError THEN issued + 1 ELSE issued
         /\ last' = respond("reset", 200, o)
         /\ client' = IF o.error = NoError
                      THEN [client EXCEPT !.uploadStatus = "aguardando", !.sessionId = o.sessionId,
                                          !.pending = "none", !.toast = "Sessão reiniciada"]
                      ELSE [client EXCEPT !.pending = "none", !.toast = "Erro ao reiniciar"]
  /\ UNCHANGED <<clock, inflight, candidate, verdict>>

SelectAnyFile == \E file \in ClientFiles : SelectFile(file)

ClientNext == SelectAnyFile \/ UploadAnswered \/ PressReset \/ ResetAnswered

\* the user presses the reset button while it is shown, and the server
\* answers every call
ClientSpec ==
  /\ ClientInit /\ [][ClientNext]_vars
  /\ WF_vars(PressReset) /\ WF_vars(ResetAnswered) /\ WF_vars(UploadAnswered)

(***************************************************************************)
(* Properties.  An operation's effect in a state is the outcome of the     *)
(* service call on that state's store, for every input of the model.       *)
(***************************************************************************)
Keys == DOMAIN store

Req(file, header) == [file |-> file, sessionIdHeader |-> header]

createUpload(file, header) == imageUploadCreate(store, clock, uuidv4, Req(file, header))
getSession(sessionId) == imageUploadGetSession(store, sessionId)
resetSession(sessionId) == imageUploadResetSession(store, clock, uuidv4, sessionId)

\* a record with no file, as resetSession writes it
NewRecord(sessionId, now) ==
  [sessionId |-> sessionId, status |-> "nova",
   fileName |-> Null, fileSize |-> Null, mimeType |-> Null, fileBuffer |-> Null,
   createdAt |-> now, updatedAt |-> now]

\* the record createUpload writes for file f
CompletedRecord(sessionId, f, createdAt, now) ==
  [sessionId |-> sessionId, status |-> "concluida",
   fileName |-> Some(f.fileName), fileSize |-> Some(f.fileSize),
   mimeType |-> Some(f.mimeType), fileBuffer |-> Some(f.fileBuffer),
   createdAt |-> createdAt, updatedAt |-> now]

\* sessions t holds exactly the records of s outside the ids in except
SameExcept(s, t, except) ==
  /\ (DOMAIN s) \ except = (DOMAIN t) \ except
  /\ \A k \in (DOMAIN s) \ except : t[k] = s[k]

ValidationCodes ==
  {"FILE_TOO_LARGE", "INVALID_EXTENSION", "NOT_AN_IMAGE", "INVALID_FORMAT", "CORRUPTED_FILE"}

Created == last.op = "create" /\ last.responded /\ last.status = 201

\* C1: the store never holds more than MAX_SESSIONS distinct ids, and
\* replacing the record of an id it already holds leaves the number of ids
\* unchanged.
C1_CapacityBound ==
  /\ count(store) <= MAX_SESSIONS
  /\ \A id \in Keys :
       LET put == createOrUpdate(store, id, NewRecord(id, clock))
       IN  ~put.threw /\ count(put.sessions) = count(store)

\* a full store in which an upload has just replaced a record in place
C1_Witness ==
  /\ count(store) = MAX_SESSIONS
  /\ Created
  /\ store[last.sessionId[1]].createdAt < store[last.sessionId[1]].updatedAt

\* C2: in a full store, createOrUpdate of an absent id throws and leaves the
\* store as it was (so does a valid upload that needs a new id), while
\* createOrUpdate of a held id succeeds and replaces exactly that record.
C2_FullStoreUpsert ==
  count(store) >= MAX_SESSIONS =>
    /\ \A id \in (KnownIds \cup {uuidv4}) \ Keys :
         LET put == createOrUpdate(store, id, NewRecord(id, clock))
         IN  put.threw /\ put.sessions = store
    /\ \A f \in ValidFiles, header \in Headers :
         (~headerPresent(header) \/ header[1] \notin Keys) =>
           /\ createUpload(Some(f), header).error = PlainError
           /\ createUpload(Some(f), header).sessions = store
    /\ \A id \in Keys :
         LET put == createOrUpdate(store, id, NewRecord(id, clock))
         IN  /\ ~put.threw
             /\ put.sessions[id] = NewRecord(id, clock)
             /\ SameExcept(store, put.sessions, {id})
             /\ DOMAIN put.sessions = Keys

\* a full store that has just refused an upload under a new id
C2_Witness ==
  /\ count(store) = MAX_SESSIONS
  /\ last.op = "create"
  /\ ~last.responded

\* C3: a createUpload whose file fails validation leaves the store as it
\* was, whatever the x-session-id header.
C3_ValidationFailureFrame ==
  \A f \in InvalidFiles, header \in Headers :
    /\ createUpload(Some(f), header).error.code \in ValidationCodes
    /\ createUpload(Some(f), header).sessions = store

\* a non-empty store after an upload was rejected by validation
C3_Witness ==
  /\ last.op = "create"
  /\ last.code \in ValidationCodes
  /\ count(store) > 0

\* C4 as stated: every createUpload naming a session whose record is
\* Completed fails with SESSION_LIMIT_REACHED, whatever the file.
C4_Original ==
  \A id \in Keys, file \in Files :
    store[id].status = "concluida" =>
      /\ createUpload(file, Some(id)).error = ServiceError("SESSION_LIMIT_REACHED", 400)
      /\ createUpload(file, Some(id)).sessions = store

\* C4 amended: every createUpload naming a session whose record is Completed
\* is rejected with status 400 and leaves the store unchanged; the code is
\* SESSION_LIMIT_REACHED when the file passes validation, and otherwise the
\* code of the validation failure (VALIDATION_ERROR when there is no file).
C4_CompletedSessionRejected ==
  \A id \in Keys, file \in Files :
    store[id].status = "concluida" =>
      LET o == createUpload(file, Some(id))
      IN  /\ o.sessions = store
          /\ o.error.cls = "ServiceError"
          /\ o.error.statusCode = 400
          /\ o.error.code =
               IF file = Null THEN "VALIDATION_ERROR"
               ELSE IF file[1] \in ValidFiles THEN "SESSION_LIMIT_REACHED"
               ELSE validateImageFile(file[1]).errorCode

\* an upload into a Completed session has just been refused
C4_Witness ==
  /\ last.op = "create"
  /\ last.code = "SESSION_LIMIT_REACHED"
  /\ \E id \in Keys : store[id].status = "concluida"

\* C5 as stated.  An id that uuidv4() has issued enters the store when it is
\* issued and leaves it only through resetSession's delete, so "issued and
\* not in the store" is "resetSession(id) has succeeded": once that holds,
\* the id is never a key of the store again.
C5_ResetIdNeverReused ==
  [][\A i \in 1..issued :
       ServerUuids[i] \notin Keys => ServerUuids[i] \notin DOMAIN store']_vars

\* C6 as stated: resetSession(id) on any id held by the store deletes its
\* record, creates exactly one 'nova' record with null file fields under a
\* new id, returns that id, and getSession(id) then fails with NOT_FOUND.
C6_ResetReplacesSession ==
  \A id \in Keys :
    issued < NumUuids =>
      LET o == resetSession(id)
      IN  /\ o.error = NoError
          /\ o.sessionId /= Null
          /\ o.sessionId[1] /= id
          /\ o.sessionId[1] \notin Keys
          /\ DOMAIN o.sessions = (Keys \ {id}) \cup {o.sessionId[1]}
          /\ o.sessions[o.sessionId[1]] = NewRecord(o.sessionId[1], clock)
          /\ SameExcept(store, o.sessions, {id, o.sessionId[1]})
          /\ imageUploadGetSession(o.sessions, id).error = ServiceError("NOT_FOUND", 404)

\* C7 as stated: a session id that is no UUID is rejected with
\* VALIDATION_ERROR, the store untouched, by all three operations.
C7_MalformedIdRejected ==
  /\ \A file \in Files :
       /\ createUpload(file, Some(MalformedId)).error = ServiceError("VALIDATION_ERROR", 400)
       /\ createUpload(file, Some(MalformedId)).sessions = store
  /\ getSession(MalformedId).error = ServiceError("VALIDATION_ERROR", 400)
  /\ getSession(MalformedId).sessions = store
  /\ resetSession(MalformedId).error = ServiceError("VALIDATION_ERROR", 400)
  /\ resetSession(MalformedId).sessions = store

\* C8: createUpload with a valid file naming a held session that is not
\* Completed replaces the record under the same id with a Completed record
\* of that file, keeps createdAt, and changes no other record.
C8_UpdateInPlace ==
  \A id \in Keys, f \in ValidFiles :
    store[id].status /= "concluida" =>
      LET o == createUpload(Some(f), Some(id))
      IN  /\ o.error = NoError
          /\ o.sessionId = Some(id)
          /\ DOMAIN o.sessions = Keys
          /\ count(o.sessions) = count(store)
          /\ o.sessions[id] = CompletedRecord(id, f, store[id].createdAt, clock)
          /\ SameExcept(store, o.sessions, {id})

\* a record created earlier has just been completed by an upload
C8_Witness ==
  /\ Created
  /\ store[last.sessionId[1]].createdAt < store[last.sessionId[1]].updatedAt
  /\ store[last.sessionId[1]].status = "concluida"

\* C9 as stated: createUpload with a valid file and no session id always
\* creates one Completed record under a fresh id.
C9_Original ==
  \A f \in ValidFiles :
    issued < NumUuids =>
      LET o == createUpload(Some(f), Null)
      IN  /\ o.error = NoError
          /\ o.sessionId /= Null
          /\ o.sessionId[1] \notin Keys
          /\ DOMAIN o.sessions = Keys \cup {o.sessionId[1]}

\* C9 amended: createUpload with a valid file and no session id, on a store
\* holding fewer than MAX_SESSIONS ids, creates exactly one record, under a
\* fresh id, Completed, and leaves every other record unchanged; on a full
\* store it fails and leaves the store unchanged.
C9_CreateFresh ==
  \A f \in ValidFiles, header \in {Null, Some("")} :
    issued < NumUuids =>
      LET o == createUpload(Some(f), header)
      IN  IF count(store) < MAX_SESSIONS
          THEN /\ o.error = NoError
               /\ o.sessionId /= Null
               /\ o.sessionId[1] \notin Keys
               /\ sessionParamsSchema(o.sessionId[1])
               /\ DOMAIN o.sessions = Keys \cup {o.sessionId[1]}
               /\ o.sessions[o.sessionId[1]] =
                    CompletedRecord(o.sessionId[1], f, clock, clock)
               /\ SameExcept(store, o.sessions, {o.sessionId[1]})
          ELSE o.error /= NoError /\ o.sessions = store

\* an upload without session id has just added a record to a non-empty store
C9_Witness ==
  /\ Created
  /\ count(store) >= 2
  /\ last.sessionId[1] = ServerUuids[issued]
  /\ store[last.sessionId[1]].createdAt = store[last.sessionId[1]].updatedAt

ErrorKinds ==
  ValidationCodes \cup {"VALIDATION_ERROR", "SESSION_LIMIT_REACHED", "NOT_FOUND"}

\* C10 as stated: every request that fails is answered with a 4xx status
\* and one of the stable error codes.
C10_FailuresAreClientErrors ==
  (last.op /= "none" /\ last.status \notin {200, 201}) =>
    /\ last.responded
    /\ last.status \in 400..499
    /\ last.code \in ErrorKinds

FileFields(record) ==
  <<record.fileName, record.fileSize, record.mimeType, record.fileBuffer>>

\* C13: every Completed record of the store has a non-null fileName,
\* fileSize, mimeType and fileBuffer, and every New record has all four
\* null.
C13_FileFieldsFollowStatus ==
  \A k \in Keys :
    /\ store[k].status = "concluida" =>
         \A i \in 1..4 : FileFields(store[k])[i] /= Null
    /\ store[k].status = "nova" =>
         \A i \in 1..4 : FileFields(store[k])[i] = Null

\* the store holds a Completed record next to a New one that a reset wrote
C13_Witness ==
  /\ \E k \in Keys : store[k].status = "concluida"
  /\ \E k \in Keys : store[k].status = "nova" /\ store[k].fileBuffer = Null

\* C14: the record stored under key k carries sessionId k, so no two keys
\* hold records with the same sessionId.
C14_OneRecordPerId ==
  /\ \A k \in Keys : store[k].sessionId = k
  /\ \A j, k \in Keys : store[j].sessionId = store[k].sessionId => j = k

\* a reset has just re-keyed a session in a store that holds another one
C14_Witness ==
  /\ last.op = "reset" /\ last.status = 200
  /\ count(store) = MAX_SESSIONS
  /\ store[last.sessionId[1]].sessionId = last.sessionId[1]

WellFormedIds == {id \in {ServerUuids[i] : i \in 1..Len(ServerUuids)} \cup KnownIds :
                    sessionParamsSchema(id)}

\* C15: getSession never changes the store, whatever its outcome; with a
\* well-formed id the store does not hold, getSession and resetSession both
\* fail with NOT_FOUND and leave the store unchanged.
C15_ReadOnlyAndNotFound ==
  /\ \A id \in KnownIds \cup WellFormedIds : getSession(id).sessions = store
  /\ \A id \in WellFormedIds \ Keys :
       /\ getSession(id).error = ServiceError("NOT_FOUND", 404)
       /\ resetSession(id).error = ServiceError("NOT_FOUND", 404)
       /\ resetSession(id).sessions = store

\* a getSession of an absent well-formed id has just been answered 404 by a
\* store that holds a session
C15_Witness ==
  /\ last.op = "get" /\ last.status = 404 /\ last.code = "NOT_FOUND"
  /\ count(store) >= 1

(***************************************************************************)
(* Properties of the validation chain, over ValidationSpec.                *)
(***************************************************************************)
Ran(fn) == verdict /= Idle /\ verdict.fn = fn

\* C16: validate runs the stages in the order size, extension,
\* signature/format, integrity; the errorCode is the one of the first stage
\* that fails, and the details flags of every later stage are false (after
\* a size failure also declaredExtension and detectedFormat are null).
C16_FirstFailingStageDecides ==
  Ran("validateImageFile") =>
    LET r    == verdict.out
        d    == r.details
        size == validateFileSize(candidate.fileSize)
        ext  == validateFileExtension(candidate.fileName)
        fmt  == validateFileFormat(ext.value[1], candidate.fileBuffer)
        int  == validateFileIntegrity(candidate.fileBuffer, fmt.value)
    IN  IF size.threw
        THEN /\ r.errorCode = size.code
             /\ ~d.extensionValid /\ ~d.formatValid /\ ~d.signatureValid /\ ~d.integrityValid
             /\ d.declaredExtension = Null /\ d.detectedFormat = "null"
        ELSE IF ext.threw
        THEN /\ r.errorCode = ext.code
             /\ ~d.formatValid /\ ~d.signatureValid /\ ~d.integrityValid
        ELSE IF fmt.threw
        THEN /\ r.errorCode = fmt.code
             /\ ~d.integrityValid
        ELSE IF int.threw
        THEN r.errorCode = int.code
        ELSE r.errorCode = "null"

\* validate has answered for a file whose size passes and whose extension
\* and signature are both wrong: the extension's code is the one reported
C16_Witness ==
  /\ Ran("validateImageFile")
  /\ candidate.fileSize = 20
  /\ candidate.fileName = PhotoGif
  /\ detectFileFormat(candidate.fileBuffer) = "null"
  /\ verdict.out.errorCode = "INVALID_EXTENSION"

\* C17: the size stage depends only on fileSize: CORRUPTED_FILE below 1,
\* FILE_TOO_LARGE above 15728640, a pass from 1 to 15728640 inclusive; a
\* file of 16000000 bytes fails validation with FILE_TOO_LARGE whatever its
\* name and bytes.
C17_SizeStage ==
  /\ Ran("validateFileSize") =>
       verdict.out =
         IF candidate.fileSize < 1 THEN [threw |-> TRUE, code |-> "CORRUPTED_FILE"]
         ELSE IF candidate.fileSize > 15728640 THEN [threw |-> TRUE, code |-> "FILE_TOO_LARGE"]
         ELSE [threw |-> FALSE, code |-> "null"]
  /\ (Ran("validateImageFile") /\ candidate.fileSize = 16000000) =>
       ~verdict.out.isValid /\ verdict.out.errorCode = "FILE_TOO_LARGE"

\* the size stage has passed a file of exactly 15728640 bytes
C17_Witness ==
  /\ Ran("validateFileSize")
  /\ candidate.fileSize = 15728640
  /\ ~verdict.out.threw

\* C18: isValid is true exactly when all four stages passed, and then all
\* five flags are true, detectedFormat and declaredExtension are non-null
\* and errorCode is null; a failing result has isValid false and a non-null
\* errorCode.
C18_ValidIffAllStagesPass ==
  Ran("validateImageFile") =>
    LET r    == verdict.out
        d    == r.details
        size == validateFileSize(candidate.fileSize)
        ext  == validateFileExtension(candidate.fileName)
        fmt  == validateFileFormat(ext.value[1], candidate.fileBuffer)
        int  == validateFileIntegrity(candidate.fileBuffer, fmt.value)
        allPassed == ~size.threw /\ ~ext.threw /\ ~fmt.threw /\ ~int.threw
    IN  /\ r.isValid <=> allPassed
        /\ r.isValid =>
             /\ d.sizeValid /\ d.extensionValid /\ d.formatValid
             /\ d.signatureValid /\ d.integrityValid
             /\ d.detectedFormat /= "null"
             /\ d.declaredExtension /= Null
             /\ r.errorCode = "null"
        /\ ~r.isValid => r.errorCode /= "null"

\* validate has accepted a JPEG file named with the .jpeg extension
C18_Witness ==
  /\ Ran("validateImageFile")
  /\ verdict.out.isValid
  /\ verdict.out.details.detectedFormat = "jpeg"
  /\ verdict.out.details.declaredExtension = Some(<<".", "j", "p", "e", "g">>)

\* C19: the signature/format stage fails with NOT_AN_IMAGE when the
\* detector returns Unknown and with INVALID_FORMAT when the detected family
\* differs from the extension's; a PNG-signed buffer passes only with .png,
\* a JPEG-signed one with .jpg or .jpeg.
C19_FormatStage ==
  Ran("validateFileFormat") =>
    LET extension == verdict.arg[1]
        detected  == detectFileFormat(candidate.fileBuffer)
        family    == IF extension = <<".", "p", "n", "g">> THEN "png"
                     ELSE IF extension \in {<<".", "j", "p", "g">>, <<".", "j", "p", "e", "g">>}
                          THEN "jpeg" ELSE "none"
    IN  verdict.out =
          IF detected = "null"
          THEN [threw |-> TRUE, code |-> "NOT_AN_IMAGE", value |-> "null"]
          ELSE IF detected /= family
               THEN [threw |-> TRUE, code |-> "INVALID_FORMAT", value |-> "null"]
               ELSE [threw |-> FALSE, code |-> "null", value |-> detected]

\* the format stage has passed a JPEG-signed buffer declared as .jpeg
C19_Witness ==
  /\ Ran("validateFileFormat")
  /\ verdict.arg = Some(EXT_JPEG)
  /\ detectFileFormat(candidate.fileBuffer) = "jpeg"
  /\ ~verdict.out.threw

\* seq ends with the elements of suffix
EndsWith(seq, suffix) ==
  /\ Len(seq) >= Len(suffix)
  /\ \A i \in 1..Len(suffix) : seq[Len(seq) - Len(suffix) + i] = suffix[i]

Batch == IF inflight = Idle THEN <<>> ELSE inflight.requests
Start == IF inflight = Idle THEN <<>> ELSE inflight.start

Done(i) == Batch[i].pc = "done"
HasValidFile(i) == validated[Batch[i].req.file[1]].isValid
Succeeded(i) == Done(i) /\ Batch[i].response.responded /\ Batch[i].response.status = 201
LimitReached(i) ==
  /\ Done(i) /\ Batch[i].response.status = 400
  /\ Batch[i].response.code = "SESSION_LIMIT_REACHED"
\* the store refused a new id: a plain Error, no response from the handler
Refused(i) == Done(i) /\ ~Batch[i].response.responded

\* requests i and j name the session id, which no other request of the
\* batch names or is given; both carry a valid file, and the id's record was
\* absent or not Completed when the batch arrived
SameSessionPair(i, j, id) ==
  /\ i /= j
  /\ \A k \in 1..Len(Batch) :
       Some(id) \in {Batch[k].req.sessionIdHeader, Batch[k].response.sessionId} => k \in {i, j}
  /\ Batch[i].req.sessionIdHeader = Some(id)
  /\ Batch[j].req.sessionIdHeader = Some(id)
  /\ HasValidFile(i) /\ HasValidFile(j)
  /\ id \in DOMAIN Start => Start[id].status /= "concluida"

OneWins(i, j, id) ==
  /\ \/ Succeeded(i) /\ LimitReached(j)
     \/ Succeeded(j) /\ LimitReached(i)
  /\ id \in Keys /\ store[id].status = "concluida"

\* C11 as stated: of two interleaved uploads with valid files that name the
\* same session id, exactly one ends with the record Completed and the other
\* fails with SESSION_LIMIT_REACHED.
C11_Original ==
  \A i, j \in 1..Len(Batch) : \A id \in KnownIds :
    (SameSessionPair(i, j, id) /\ Done(i) /\ Done(j)) => OneWins(i, j, id)

\* C11, amended: the two never both succeed; exactly one ends with the
\* record Completed and the other fails with SESSION_LIMIT_REACHED, unless
\* the id is new and the store is at capacity, in which case both are
\* refused and no record is written for the id.
C11_SameSessionRace ==
  \A i, j \in 1..Len(Batch) : \A id \in KnownIds :
    SameSessionPair(i, j, id) =>
      /\ ~(Succeeded(i) /\ Succeeded(j))
      /\ (Done(i) /\ Done(j)) =>
           \/ OneWins(i, j, id)
           \/ /\ Refused(i) /\ Refused(j)
              /\ id \notin DOMAIN Start /\ id \notin Keys
              /\ count(store) >= MAX_SESSIONS

\* two uploads named the New session a reset had created; the one that
\* arrived second completed it and the first was answered
\* SESSION_LIMIT_REACHED
C11_Witness ==
  /\ Len(Batch) >= 2
  /\ \E id \in DOMAIN Start :
       /\ Start[id].status = "nova"
       /\ SameSessionPair(1, 2, id)
       /\ Succeeded(2) /\ LimitReached(1)

\* the header of request i is absent, or an id that no record of the
\* starting store carries, no other request of the batch names and no
\* request of the batch was given by the server
ForNewId(i) ==
  LET header == Batch[i].req.sessionIdHeader
  IN  headerPresent(header) =>
        /\ header[1] \notin DOMAIN Start
        /\ \A j \in 1..Len(Batch) :
             /\ j /= i => Batch[j].req.sessionIdHeader /= header
             /\ Batch[j].response.sessionId /= header

Min(a, b) == IF a < b THEN a ELSE b

\* C12: under any interleaving of uploads for distinct new ids the store
\* never holds more than MAX_SESSIONS records, and of a batch that found k
\* free slots exactly min(k, number of requests with a valid file) succeed.
C12_CapacityRace ==
  /\ count(store) <= MAX_SESSIONS
  /\ (/\ \A i \in 1..Len(Batch) : Done(i) /\ ForNewId(i))
       =>
       Cardinality({i \in 1..Len(Batch) : Succeeded(i)}) =
         Min(MAX_SESSIONS - count(Start),
             Cardinality({i \in 1..Len(Batch) : HasValidFile(i)}))

\* two uploads with valid files and no session id found one free slot: the
\* one that resumed first took it and the store refused the other
C12_Witness ==
  /\ Len(Batch) = 2
  /\ count(Start) = MAX_SESSIONS - 1
  /\ \A i \in 1..2 : Batch[i].req.sessionIdHeader = Null /\ HasValidFile(i)
  /\ Succeeded(2) /\ Refused(1)
  /\ count(store) = MAX_SESSIONS

\* seq begins with the elements of prefix
StartsWith(seq, prefix) ==
  /\ Len(seq) >= Len(prefix)
  /\ \A i \in 1..Len(prefix) : seq[i] = prefix[i]

PngSigned(buf) == StartsWith(buf, <<137, 80, 78, 71, 13, 10, 26, 10>>)
JpegSigned(buf) == StartsWith(buf, <<255, 216, 255>>)

\* C21: detect returns Unknown, and raises nothing, for every buffer
\* shorter than 12 bytes: the empty buffer, and buffers of 8 to 11 bytes
\* that begin with a PNG or JPEG signature.
C21_ShortBufferUnknown ==
  (Ran("detectFileFormat") /\ Len(candidate.fileBuffer) < 12) => verdict.out = "null"

\* detect has answered Unknown for a 9-byte buffer that begins with the PNG
\* signature
C21_Witness ==
  /\ Ran("detectFileFormat")
  /\ Len(candidate.fileBuffer) = 9
  /\ PngSigned(candidate.fileBuffer)
  /\ verdict.out = "null"

\* C22 as stated: detect returns PNG for every buffer whose first 8 bytes
\* are the PNG signature, JPEG for every buffer whose first 3 bytes are
\* FF D8 FF, and Unknown for every other buffer.
C22_Original ==
  Ran("detectFileFormat") =>
    verdict.out = IF PngSigned(candidate.fileBuffer) THEN "png"
                  ELSE IF JpegSigned(candidate.fileBuffer) THEN "jpeg"
                  ELSE "null"

\* C22, amended: among buffers of at least 12 bytes detect returns PNG
\* exactly for those whose first 8 bytes are the PNG signature and JPEG
\* exactly for those whose first 3 bytes are FF D8 FF; for every other
\* buffer, and for every buffer shorter than 12 bytes, it returns Unknown.
C22_ExactSignatures ==
  Ran("detectFileFormat") =>
    verdict.out = IF Len(candidate.fileBuffer) < 12 THEN "null"
                  ELSE IF PngSigned(candidate.fileBuffer) THEN "png"
                  ELSE IF JpegSigned(candidate.fileBuffer) THEN "jpeg"
                  ELSE "null"

\* detect has answered Unknown for a 12-byte buffer whose first 7 bytes are
\* those of the PNG signature and whose 8th is not
C22_Witness ==
  /\ Ran("detectFileFormat")
  /\ candidate.fileBuffer = <<137, 80, 78, 71, 13, 10, 26, 11, 0, 0, 0, 0>>
  /\ verdict.out = "null"

AllowedExtensions ==
  { <<".", "p", "n", "g">>, <<".", "j", "p", "g">>, <<".", "j", "p", "e", "g">> }

\* C23: the extension stage passes exactly the file names that end, in any
\* mix of upper and lower case, with .png, .jpg or .jpeg, and returns that
\* extension in lower case; every other name, one without '.' included,
\* fails with INVALID_EXTENSION.
C23_ExtensionStage ==
  Ran("validateFileExtension") =>
    LET lower == toLowerCase(candidate.fileName)
        matching == {ext \in AllowedExtensions : EndsWith(lower, ext)}
    IN  IF matching = {}
        THEN verdict.out = [threw |-> TRUE, code |-> "INVALID_EXTENSION", value |-> Null]
        ELSE /\ ~verdict.out.threw
             /\ verdict.out.value /= Null
             /\ verdict.out.value[1] \in matching

\* the extension stage has passed a name whose extension is in mixed case
C23_Witness ==
  /\ Ran("validateFileExtension")
  /\ candidate.fileName = <<"p", ".", "P", "n", "G">>
  /\ verdict.out = [threw |-> FALSE, code |-> "null", value |-> Some(<<".", "p", "n", "g">>)]

\* C24 as stated: createUpload checks the declared MIME type against
\* {image/png, image/jpeg, image/jpg}, so an upload that declares another
\* type never results in a stored Completed session, and the MIME check
\* accepts each of the three listed types.
C24_MimeAllowList ==
  /\ \A f \in MislabelledFiles : \A header \in Headers :
       LET o == createUpload(Some(f), header)
       IN  \A k \in DOMAIN o.sessions :
             o.sessions[k].status = "concluida" =>
               o.sessions[k].mimeType[1] \in IMAGE_UPLOAD_MIME_TYPES
  /\ \A type \in {"image/png", "image/jpeg", "image/jpg"} : validateMimeType(type)

\* C25: createOrUpdate(id, r) called a second time with the same record r
\* leaves count() and the record stored under id as the first call left
\* them.
C25_UpsertIdempotent ==
  \A id \in KnownIds \cup {uuidv4} :
    \A r \in {NewRecord(id, clock), CompletedRecord(id, TheValidFile, 1, clock)} :
      LET first  == createOrUpdate(store, id, r)
          second == createOrUpdate(first.sessions, id, r)
      IN  /\ second.threw = first.threw
          /\ count(second.sessions) = count(first.sessions)
          /\ getBySessionId(second.sessions, id) = getBySessionId(first.sessions, id)
          /\ second.sessions = first.sessions

\* an upload has just been stored and one slot is left: the first call for
\* a new id fills the store and the second finds it full
C25_Witness ==
  /\ Created
  /\ count(store) = MAX_SESSIONS - 1
  /\ ~createOrUpdate(store, uuidv4, NewRecord(uuidv4, clock)).threw

\* C26 as stated: the details are populated for every stage that was
\* attempted: whenever the signature stage ran and detected a format, also
\* when the result is INVALID_FORMAT, detectedFormat carries that format and
\* signatureValid is true.
C26_DetailsOfAttemptedStages ==
  Ran("validateImageFile") =>
    LET size == validateFileSize(candidate.fileSize)
        ext  == validateFileExtension(candidate.fileName)
        detected == detectFileFormat(candidate.fileBuffer)
    IN  (~size.threw /\ ~ext.threw /\ detected /= "null") =>
          /\ verdict.out.details.detectedFormat = detected
          /\ verdict.out.details.signatureValid

\* C27: resetSession of an id the store holds never fails on the capacity
\* limit and leaves count() unchanged, also when the store is full; no
\* operation ever lowers count().
C27_ResetKeepsCount ==
  /\ \A id \in Keys :
       LET o == resetSession(id)
       IN  /\ o.error /= PlainError
           /\ count(o.sessions) = count(store)
           /\ sessionParamsSchema(id) => o.error = NoError
  /\ \A id \in KnownIds \cup WellFormedIds :
       /\ count(resetSession(id).sessions) >= count(store)
       /\ count(getSession(id).sessions) >= count(store)
  /\ \A file \in Files : \A header \in Headers :
       count(createUpload(file, header).sessions) >= count(store)

\* a reset has just replaced a session of a full store by a New one under
\* the latest UUID
C27_Witness ==
  /\ last.op = "reset" /\ last.status = 200
  /\ count(store) = MAX_SESSIONS
  /\ last.sessionId = Some(ServerUuids[issued])
  /\ store[ServerUuids[issued]].status = "nova"

\* C28: below capacity, createUpload with a valid file and a supplied
\* session id that is not a key of the store creates the record under
\* exactly that id, without generating one, with createdAt = updatedAt, and
\* leaves the other records as they were.
C28_CreateUnderSuppliedId ==
  count(store) < MAX_SESSIONS =>
    \A f \in ValidFiles : \A id \in (KnownIds \cup WellFormedIds) \ Keys :
      LET o == createUpload(Some(f), Some(id))
      IN  /\ o.error = NoError
          /\ o.sessionId = Some(id)
          /\ ~o.usedUuid
          /\ DOMAIN o.sessions = Keys \cup {id}
          /\ o.sessions[id] = CompletedRecord(id, f, clock, clock)
          /\ o.sessions[id].createdAt = o.sessions[id].updatedAt
          /\ SameExcept(store, o.sessions, {id})

\* an upload that named the client's own id has just created that session
\* next to an older one
C28_Witness ==
  /\ Created
  /\ last.sessionId = Some(ClientUuid)
  /\ count(store) >= 2
  /\ store[ClientUuid].createdAt = store[ClientUuid].updatedAt
  /\ \E k \in Keys : store[k].updatedAt < store[ClientUuid].createdAt

Statuses(sessions) == {sessions[k].status : k \in DOMAIN sessions}

\* C29: every record of the store has status 'nova' or 'concluida'; the
\* only change of a record's status is from 'nova' to 'concluida', made by
\* createUpload, and a 'concluida' record stays as it is until resetSession
\* removes it.
C29_StatusLifecycle ==
  [][ /\ Statuses(store) \cup Statuses(store') \subseteq {"nova", "concluida"}
      /\ \A k \in Keys :
           IF k \in DOMAIN store'
           THEN /\ store[k].status = "concluida" => store'[k] = store[k]
                /\ store'[k].status /= store[k].status =>
                     /\ store[k].status = "nova" /\ store'[k].status = "concluida"
                     /\ last'.op = "create"
           ELSE last'.op = "reset" /\ last'.status = 200 ]_vars

\* an upload has just completed the New session that a reset had created
\* earlier, the only session of the store
C29_Witness ==
  /\ Created
  /\ issued >= 1
  /\ Keys = {ServerUuids[issued]}
  /\ last.sessionId = Some(ServerUuids[issued])
  /\ store[ServerUuids[issued]].status = "concluida"
  /\ store[ServerUuids[issued]].createdAt < store[ServerUuids[issued]].updatedAt

(***************************************************************************)
(* Property of the upload hook, over ClientSpec.                           *)
(***************************************************************************)
\* C30 as stated: from every state in which uploadStatus is 'erro' or
\* 'concluído', with resetUpload invoked and the server answering, the hook
\* eventually returns to 'aguardando' with canUpload true.
C30_ResetReturnsToWaiting ==
  (client /= Idle /\ showResetButton) ~> (client.uploadStatus = "aguardando" /\ canUpload)

====
